---- MODULE Spec2Model ----
(***************************************************************************)
(* A model of server.js: the JSON API of the personal-training backend.    *)
(* The persisted document (database.json) is the variable db; every        *)
(* handler of handleAPI is one action, run as one event-loop callback.     *)
(* The handler of POST /api/tickets/:id/message is modelled at statement   *)
(* granularity (loadDB .. saveDB) to settle the claims about interleaving. *)
(***************************************************************************)
EXTENDS Integers, Sequences, FiniteSets, TLC

\* ---------------------------------------------------------------- bounds
\* Requests that can be in flight (body being received) at the same time.
NSlots == 2
\* Clock ticks the model lets pass after the server has started.
MaxTicks == 1
\* Resolution of the model clock: ticks of Date.now() per day.
TicksPerDay == 2
\* Length of a calendar month of the model, in days.
DaysPerMonth == 1
\* Entities the document may hold, all collections together.
MaxEntities == 2
\* Messages a ticket may hold.
MaxMsgs == 2

Slots == 1..NSlots
\* The instant the server starts: one tick before the first month ends.
T0 == TicksPerDay * DaysPerMonth - 1
Times == T0..(T0 + MaxTicks)

\* ------------------------------------------------------------ JSON values
\* A JSON value is modelled by a string token; Undefined is an absent key.
Undefined == "undefined"
Null == "null"
\* undefined, null, false, the number 0 and the empty string are falsy.
Falsy == {Undefined, Null, "false", "0", ""}
Truthy(v) == v \notin Falsy
\* JavaScript's  v || d
OrElse(v, d) == IF Truthy(v) THEN v ELSE d

\* Number.prototype.toString(36)
Digits36 == << "0", "1", "2", "3", "4", "5", "6", "7", "8", "9", "a", "b",
               "c", "d", "e", "f", "g", "h", "i", "j", "k", "l", "m", "n",
               "o", "p", "q", "r", "s", "t", "u", "v", "w", "x", "y", "z" >>
RECURSIVE ToString36(_)
ToString36(n) ==
  IF n < Len(Digits36) THEN Digits36[n + 1]
  ELSE ToString36(n \div Len(Digits36)) \o Digits36[(n % Len(Digits36)) + 1]

\* Date.prototype.toISOString(): the date part and the time of day.
ToISOString(t) == [date |-> t \div TicksPerDay, tod |-> t % TicksPerDay]
\* new Date(iso).getTime()
GetTime(iso) == iso.date * TicksPerDay + iso.tod

\* An id that no entity ever gets (ids are base-36 numerals).
UnknownId == "nope"
Ids == {ToString36(t) : t \in Times} \cup {UnknownId}

\* Array.prototype.findIndex(e => e.id === id), 1-based; 0 when none.
FindIndex(seq, id) ==
  IF \E i \in 1..Len(seq) : seq[i].id = id
  THEN CHOOSE i \in 1..Len(seq) :
         seq[i].id = id /\ \A j \in 1..(i - 1) : seq[j].id # id
  ELSE 0

\* Mutant: splice(index) without a count removes everything from index on.
Splice1_ToEnd(seq, i) == SubSeq(seq, 1, i - 1)

\* Array.prototype.splice(index, 1)
Splice1(seq, i) == SubSeq(seq, 1, i - 1) \o SubSeq(seq, i + 1, Len(seq))

\* ------------------------------------------------------------------ state
VARIABLES
  db,    \* the persisted document, database.json
  now,   \* the clock, Date.now()
  pc,    \* per request slot: "idle", "receiving" (parseBody pending), "loaded",
         \* "down" (the process has exited)
  frame, \* per slot: the local variables of a callback that has run loadDB
  res,   \* the last response written: the handler, the status, the JSON body
  posted, \* the last successful create, until another request changes the store
  sent   \* per slot: the responses written to its request since it arrived

vars == << db, now, pc, frame, res, posted, sent >>

NoFrame == [id |-> "", body |-> << >>, db |-> << >>]
NoPost == [kind |-> "none", id |-> "", body |-> << >>]

Response(op, status, body) == [op |-> op, status |-> status, body |-> body]
ErrorBody(msg) == << [error |-> msg] >>
SuccessBody == << [success |-> TRUE] >>

\* initDB: the document written when database.json does not exist.
initDB ==
  [admin |-> [username |-> "admin", password |-> "admin123"],
   clients |-> << >>, programs |-> << >>, tickets |-> << >>, recipes |-> << >>]

Init ==
  /\ db = initDB
  /\ now = T0
  /\ pc = [r \in Slots |-> "idle"]
  /\ frame = [r \in Slots |-> NoFrame]
  /\ res = Response("none", 0, << >>)
  /\ posted = NoPost
  /\ sent = [r \in Slots |-> 0]

\* Mutant: the store is read and written with asynchronous calls, so other
\* callbacks run between a handler's load and its save.
EventLoopIdle_Async == TRUE

\* Node runs one callback at a time and loadDB/saveDB are synchronous
\* (readFileSync, writeFileSync): no callback starts while another is between
\* its loadDB and its saveDB, and none starts once the process has exited.
EventLoopIdle == \A q \in Slots : pc[q] \notin {"loaded", "down"}

\* The clock advances between callbacks.
Tick ==
  /\ EventLoopIdle
  /\ now < T0 + MaxTicks
  /\ now' = now + 1
  /\ UNCHANGED << db, pc, frame, res, posted >>
  /\ UNCHANGED sent

\* requestHandler for a request with a body: parseBody waits for 'end'.
Arrive(r) ==
  /\ EventLoopIdle
  /\ pc[r] = "idle"
  /\ pc' = [pc EXCEPT ![r] = "receiving"]
  /\ UNCHANGED << db, now, frame, res, posted >>
  /\ sent' = [sent EXCEPT ![r] = 0]

\* parseBody rejects (invalid JSON) or the callback throws on a body that is
\* not an object: the .catch answers 400 and the store is not touched.
RejectBody(r) ==
  /\ EventLoopIdle
  /\ pc[r] = "receiving"
  /\ pc' = [pc EXCEPT ![r] = "idle"]
  /\ res' = Response("catch", 400, ErrorBody("Invalid JSON"))
  /\ UNCHANGED << db, now, frame, posted >>
  /\ sent' = [sent EXCEPT ![r] = @ + 1]

\* ------------------------------------------------------------------ login
\* Mutant: the password is not compared.
LoginSuccess_UsernameOnly(body, admin) == body.username = admin.username

\* body.username === db.admin.username && body.password === db.admin.password
LoginSuccess(body, admin) ==
  body.username = admin.username /\ body.password = admin.password

\* POST /api/login
PostLogin(r, body) ==
  /\ EventLoopIdle
  /\ pc[r] = "receiving"
  /\ pc' = [pc EXCEPT ![r] = "idle"]
  /\ LET success == LoginSuccess(body, db.admin) IN
     res' = Response("PostLogin", IF success THEN 200 ELSE 401,
                     << [success |-> success] >>)
  /\ UNCHANGED << db, now, frame, posted >>
  /\ sent' = [sent EXCEPT ![r] = @ + 1]

\* The model stops creating entities once the document holds MaxEntities.
Room ==
  Len(db.clients) + Len(db.programs) + Len(db.tickets) + Len(db.recipes)
    < MaxEntities

\* ---------------------------------------------------------------- tickets
\* fileName.replace(/[^A-Za-z0-9_.-]/g, ''), tabulated for the file names
\* the model submits; every other name it submits has only kept characters.
Sanitize(fileName) ==
  CASE fileName = "a b.png" -> "ab.png"
    [] OTHER -> fileName

\* Mutant: the path is recorded before the write, so a failed write leaves it.
Attachment_BeforeWrite(file, fileName, t, writeOk) ==
  IF Truthy(file) /\ Truthy(fileName)
  THEN "/uploads/" \o ToString36(t) \o "_" \o Sanitize(fileName)
  ELSE Undefined

\* The attachment block of both ticket handlers: the file is written under
\* Date.now().toString(36) + '_' + the sanitized name; a failed write is
\* caught and leaves the message without an attachment.
Attachment(file, fileName, t, writeOk) ==
  IF Truthy(file) /\ Truthy(fileName) /\ writeOk
  THEN "/uploads/" \o ToString36(t) \o "_" \o Sanitize(fileName)
  ELSE Undefined

Message(sender, text, attachment, t) ==
  [sender |-> sender, time |-> ToISOString(t),
   text |-> text, attachment |-> attachment]

\* POST /api/support/create: the ticket built from a valid body.
NewTicket(body, t, writeOk) ==
  LET hasFile == Truthy(body.file) /\ Truthy(body.fileName)
      msg == Message("client",
                     IF Truthy(body.message) THEN body.message ELSE Undefined,
                     Attachment(body.file, body.fileName, t, writeOk), t)
  IN  [id |-> ToString36(t),
       email |-> body.email,
       password |-> body.password,
       created |-> ToISOString(t),
       status |-> "open",
       messages |-> IF Truthy(body.message) \/ hasFile THEN << msg >> ELSE << >>]

PostCreate(r, body, writeOk) ==
  /\ EventLoopIdle
  /\ pc[r] = "receiving"
  /\ pc' = [pc EXCEPT ![r] = "idle"]
  /\ IF ~Truthy(body.email) \/ ~Truthy(body.password)
     THEN /\ res' = Response("PostCreate", 400,
                             ErrorBody("email and password required"))
          /\ UNCHANGED << db, posted >>
     ELSE LET ticket == NewTicket(body, now, writeOk) IN
          /\ Room
          /\ db' = [db EXCEPT !.tickets = Append(@, ticket)]
          /\ res' = Response("PostCreate", 201, << ticket >>)
          /\ posted' = [kind |-> "ticket", id |-> ticket.id, body |-> body]
  /\ UNCHANGED << now, frame >>
  /\ sent' = [sent EXCEPT ![r] = @ + 1]

\* GET /api/tickets
GetTickets ==
  /\ EventLoopIdle
  /\ res' = Response("GetTickets", 200, db.tickets)
  /\ UNCHANGED << db, now, pc, frame, posted >>
  /\ UNCHANGED sent

\* GET /api/tickets/:id
GetTicket(id) ==
  /\ EventLoopIdle
  /\ LET i == FindIndex(db.tickets, id) IN
     res' = IF i = 0 THEN Response("GetTicket", 404, ErrorBody("not found"))
            ELSE Response("GetTicket", 200, << db.tickets[i] >>)
  /\ UNCHANGED << db, now, pc, frame, posted >>
  /\ UNCHANGED sent

\* POST /api/tickets/:id/message, up to and including loadDB and find.
BeginMessage(r, id, body) ==
  /\ EventLoopIdle
  /\ pc[r] = "receiving"
  /\ IF ~Truthy(body.text) /\ ~Truthy(body.file)
     THEN /\ res' = Response("PostMessage", 400,
                             ErrorBody("text or file required"))
          /\ pc' = [pc EXCEPT ![r] = "idle"]
          /\ UNCHANGED frame
     ELSE LET i == FindIndex(db.tickets, id) IN
          IF i = 0
          THEN /\ res' = Response("PostMessage", 404, ErrorBody("not found"))
               /\ pc' = [pc EXCEPT ![r] = "idle"]
               /\ UNCHANGED frame
          ELSE /\ Len(db.tickets[i].messages) < MaxMsgs
               /\ frame' = [frame EXCEPT ![r] =
                              [id |-> id, body |-> body, db |-> db]]
               /\ pc' = [pc EXCEPT ![r] = "loaded"]
               /\ UNCHANGED res
  /\ UNCHANGED << db, now, posted >>
  /\ sent' = IF pc'[r] = "idle" THEN [sent EXCEPT ![r] = @ + 1] ELSE sent

\* The message the handler appends.
NewMessage(body, t, writeOk) ==
  Message(OrElse(body.sender, "client"),
          IF Truthy(body.text) THEN body.text ELSE Undefined,
          Attachment(body.file, body.fileName, t, writeOk), t)

\* Mutant: the message is put in front of the thread (unshift).
FinishMessage_Unshift(r, writeOk) ==
  /\ pc[r] = "loaded"
  /\ LET d == frame[r].db
         i == FindIndex(d.tickets, frame[r].id)
         msg == NewMessage(frame[r].body, now, writeOk)
     IN  db' = [d EXCEPT !.tickets[i].messages = << msg >> \o @]
  /\ res' = Response("PostMessage", 200, SuccessBody)
  /\ pc' = [pc EXCEPT ![r] = "idle"]
  /\ frame' = [frame EXCEPT ![r] = NoFrame]
  /\ posted' = NoPost
  /\ UNCHANGED now
  /\ sent' = [sent EXCEPT ![r] = @ + 1]

\* POST /api/tickets/:id/message, from the push to the response: the loaded
\* document, with the message appended, is saved.
FinishMessage(r, writeOk) ==
  /\ pc[r] = "loaded"
  /\ LET d == frame[r].db
         i == FindIndex(d.tickets, frame[r].id)
         msg == NewMessage(frame[r].body, now, writeOk)
     IN  db' = [d EXCEPT !.tickets[i].messages = Append(@, msg)]
  /\ res' = Response("PostMessage", 200, SuccessBody)
  /\ pc' = [pc EXCEPT ![r] = "idle"]
  /\ frame' = [frame EXCEPT ![r] = NoFrame]
  /\ posted' = NoPost
  /\ UNCHANGED now
  /\ sent' = [sent EXCEPT ![r] = @ + 1]

\* The two fixed texts (dotless i and cedilla c written in ASCII).
ClosedText == "Destek talebiniz kapatildi."
ReopenedText == "Destek talebiniz yeniden acildi."

\* Mutant: the reopened message is appended without looking at the old status.
UpdateStatus_AlwaysReopen(ticket, status, t) ==
  IF ~Truthy(status) THEN ticket
  ELSE LET oldStatus == OrElse(ticket.status, "open")
           added == IF status = "closed" /\ oldStatus # "closed"
                    THEN << Message("admin", ClosedText, Undefined, t) >>
                    ELSE IF status = "open"
                    THEN << Message("admin", ReopenedText, Undefined, t) >>
                    ELSE << >>
       IN  [ticket EXCEPT !.status = status, !.messages = @ \o added]

\* Mutant: the closure message is appended without looking at the old status.
UpdateStatus_AlwaysAnnounce(ticket, status, t) ==
  IF ~Truthy(status) THEN ticket
  ELSE LET oldStatus == OrElse(ticket.status, "open")
           added == IF status = "closed"
                    THEN << Message("admin", ClosedText, Undefined, t) >>
                    ELSE IF status = "open" /\ oldStatus = "closed"
                    THEN << Message("admin", ReopenedText, Undefined, t) >>
                    ELSE << >>
       IN  [ticket EXCEPT !.status = status, !.messages = @ \o added]

\* PUT /api/tickets/:id: the ticket after  if (status) { ... }.
UpdateStatus(ticket, status, t) ==
  IF ~Truthy(status) THEN ticket
  ELSE LET oldStatus == OrElse(ticket.status, "open")
           closing == status = "closed" /\ oldStatus # "closed"
           reopening == status = "open" /\ oldStatus = "closed"
           added == IF closing
                    THEN << Message("admin", ClosedText, Undefined, t) >>
                    ELSE IF reopening
                    THEN << Message("admin", ReopenedText, Undefined, t) >>
                    ELSE << >>
       IN  [ticket EXCEPT !.status = status, !.messages = @ \o added]

PutTicket(r, id, body) ==
  /\ EventLoopIdle
  /\ pc[r] = "receiving"
  /\ pc' = [pc EXCEPT ![r] = "idle"]
  /\ LET i == FindIndex(db.tickets, id) IN
     IF i = 0
     THEN /\ res' = Response("PutTicket", 404, ErrorBody("not found"))
          /\ UNCHANGED << db, posted >>
     ELSE LET ticket == UpdateStatus(db.tickets[i], body.status, now) IN
          /\ Len(ticket.messages) <= MaxMsgs
          /\ db' = [db EXCEPT !.tickets[i] = ticket]
          /\ res' = Response("PutTicket", 200, SuccessBody)
          /\ posted' = NoPost
  /\ UNCHANGED << now, frame >>
  /\ sent' = [sent EXCEPT ![r] = @ + 1]

\* DELETE /api/tickets/:id
DeleteTicket(id) ==
  /\ EventLoopIdle
  /\ LET i == FindIndex(db.tickets, id) IN
     IF i = 0
     THEN /\ res' = Response("DeleteTicket", 404, ErrorBody("not found"))
          /\ UNCHANGED << db, posted >>
     ELSE /\ db' = [db EXCEPT !.tickets = Splice1(@, i)]
          /\ res' = Response("DeleteTicket", 200, SuccessBody)
          /\ posted' = NoPost
  /\ UNCHANGED << now, pc, frame >>
  /\ UNCHANGED sent

\* tickets.filter(t => t.email === email && t.password === password)
Matching(tickets, email, password) ==
  SelectSeq(tickets, LAMBDA t : t.email = email /\ t.password = password)

\* Mutant: the comparator sorts by created ascending.
ByCreatedAsc(a, b) == GetTime(a.created) - GetTime(b.created)

\* The comparator of the sort: (a, b) => getTime(b.created) - getTime(a.created)
ByCreatedDesc(a, b) == GetTime(b.created) - GetTime(a.created)

\* Array.prototype.sort is stable: an element goes behind every element the
\* comparator does not put after it.
RECURSIVE Insert(_, _)
Insert(sorted, t) ==
  IF sorted = << >> THEN << t >>
  ELSE IF ByCreatedDesc(Head(sorted), t) <= 0
       THEN << Head(sorted) >> \o Insert(Tail(sorted), t)
       ELSE << t >> \o sorted

RECURSIVE Sort(_)
Sort(seq) ==
  IF seq = << >> THEN << >>
  ELSE Insert(Sort(SubSeq(seq, 1, Len(seq) - 1)), seq[Len(seq)])

\* GET /api/user/ticket?email=..&password=..
GetUserTicket(email, password) ==
  /\ EventLoopIdle
  /\ res' = IF ~Truthy(email) \/ ~Truthy(password)
            THEN Response("GetUserTicket", 400,
                          ErrorBody("email and password required"))
            ELSE LET tickets == Matching(db.tickets, email, password) IN
                 IF Len(tickets) = 0
                 THEN Response("GetUserTicket", 404,
                               ErrorBody("no tickets found"))
                 ELSE Response("GetUserTicket", 200, << Sort(tickets)[1] >>)
  /\ UNCHANGED << db, now, pc, frame, posted >>
  /\ UNCHANGED sent


\* GET /api/user/ticket with a Host header that makes 'http://' + host an
\* invalid URL (a space, an unclosed bracket): new URL(...) throws in the
\* request listener before anything is written; nothing catches it, so the
\* process exits and the requests in flight are dropped.
ThrowUserTicket ==
  /\ EventLoopIdle
  /\ pc' = [q \in Slots |-> "down"]
  /\ UNCHANGED << db, now, frame, res, posted, sent >>

\* A method and path that no route matches, POST /api/tickets/:id/<other
\* than message> included: the final 404, written without reading the body.
UnknownEndpoint ==
  /\ EventLoopIdle
  /\ res' = Response("default", 404, ErrorBody("unknown endpoint"))
  /\ UNCHANGED << db, now, pc, frame, posted, sent >>

\* ---------------------------------------------------------------- clients
\* A JavaScript number that may be NaN: << n >> is the number n, << >> is NaN.
NaN == << >>
IsNaN(x) == x = << >>

\* Days the clock of the model can show, and their date strings.
Days == 0..((T0 + MaxTicks) \div TicksPerDay)
DateString(d) == "D" \o ToString(d)
\* new Date().toISOString().split('T')[0]
Today(t) == DateString(ToISOString(t).date)
\* new Date(string).getTime(): midnight of the day, NaN for any other string.
ParseDate(s) ==
  IF \E d \in Days : DateString(d) = s
  THEN << (CHOOSE d \in Days : DateString(d) = s) * TicksPerDay >>
  ELSE NaN
\* parseInt, for one-digit decimal numerals: NaN for any other string.
ParseInt(s) ==
  IF \E n \in 0..9 : Digits36[n + 1] = s
  THEN << CHOOSE n \in 0..9 : Digits36[n + 1] = s >>
  ELSE NaN
\* Math.ceil(a / b) for b > 0
CeilDiv(a, b) == -((-a) \div b)

\* end.setMonth(end.getMonth() + months); end.getTime() - now, in ticks.
DiffMs(client, t) ==
  LET start == ParseDate(client.startDate)
      months == ParseInt(client.duration)
  IN  IF IsNaN(start) \/ IsNaN(months) THEN NaN
      ELSE << start[1] + months[1] * DaysPerMonth * TicksPerDay - t >>

\* Math.ceil(diffMs / (1000 * 3600 * 24))
DaysLeft(client, t) ==
  LET diffMs == DiffMs(client, t)
  IN  IF IsNaN(diffMs) THEN NaN ELSE << CeilDiv(diffMs[1], TicksPerDay) >>

\* The body of the forEach of GET /api/clients for one client.  A comparison
\* with NaN is false: daysLeft > 0 and daysLeft <= 0 both fail.
Recompute(client, t) ==
  IF Truthy(client.startDate) /\ Truthy(client.duration)
  THEN LET daysLeft == DaysLeft(client, t)
           positive == ~IsNaN(daysLeft) /\ daysLeft[1] > 0
           expired == ~IsNaN(daysLeft) /\ daysLeft[1] <= 0
       IN  [client EXCEPT
              !.daysLeft = IF positive THEN ToString(daysLeft[1]) ELSE "0",
              !.active = IF Truthy(client.active) /\ expired
                         THEN "false" ELSE @]
  ELSE [client EXCEPT !.daysLeft = Null]

\* Mutant: the read saves only the clients that have not expired.
GetClients_DropExpired ==
  /\ EventLoopIdle
  /\ LET clients == [i \in 1..Len(db.clients) |-> Recompute(db.clients[i], now)]
         updated == \E i \in 1..Len(clients) :
                      clients[i].active # db.clients[i].active
         kept == SelectSeq(clients, LAMBDA c : c.daysLeft # "0")
     IN  /\ db' = IF updated THEN [db EXCEPT !.clients = kept] ELSE db
         /\ res' = Response("GetClients", 200, clients)
  /\ UNCHANGED << now, pc, frame, posted >>
  /\ UNCHANGED sent

\* GET /api/clients: the recomputed list is the response; the whole document
\* is saved when some client's active flag was flipped.
GetClients ==
  /\ EventLoopIdle
  /\ LET clients == [i \in 1..Len(db.clients) |-> Recompute(db.clients[i], now)]
         updated == \E i \in 1..Len(clients) :
                      clients[i].active # db.clients[i].active
     IN  /\ db' = IF updated THEN [db EXCEPT !.clients = clients] ELSE db
         /\ res' = Response("GetClients", 200, clients)
  /\ UNCHANGED << now, pc, frame, posted >>
  /\ UNCHANGED sent

\* Mutant: the body is rejected only when both fields are missing.
MissingClientFields_Both(body) == ~Truthy(body.name) /\ ~Truthy(body.email)

\* if (!name || !email)
MissingClientFields(body) == ~Truthy(body.name) \/ ~Truthy(body.email)

\* POST /api/clients: the client pushed for a valid body.
NewClient(body, t) ==
  [id |-> ToString36(t),
   name |-> body.name,
   email |-> body.email,
   startDate |-> OrElse(body.startDate, Today(t)),
   active |-> IF body.active # "false" THEN "true" ELSE "false",
   duration |-> OrElse(body.duration, Null),
   daysLeft |-> Undefined]

PostClients(r, body) ==
  /\ EventLoopIdle
  /\ pc[r] = "receiving"
  /\ pc' = [pc EXCEPT ![r] = "idle"]
  /\ IF MissingClientFields(body)
     THEN /\ res' = Response("PostClients", 400,
                             ErrorBody("name and email required"))
          /\ UNCHANGED << db, posted >>
     ELSE LET client == NewClient(body, now) IN
          /\ Room
          /\ db' = [db EXCEPT !.clients = Append(@, client)]
          /\ res' = Response("PostClients", 201, << [id |-> client.id] >>)
          /\ posted' = [kind |-> "client", id |-> client.id, body |-> body]
  /\ UNCHANGED << now, frame >>
  /\ sent' = [sent EXCEPT ![r] = @ + 1]

\* --------------------------------------------------------------- programs
GetPrograms ==
  /\ EventLoopIdle
  /\ res' = Response("GetPrograms", 200, db.programs)
  /\ UNCHANGED << db, now, pc, frame, posted >>
  /\ UNCHANGED sent

\* Mutant: the image of a new program is not stored.
NewProgram_NoImage(body, t) ==
  [id |-> ToString36(t),
   title |-> body.title,
   description |-> OrElse(body.description, ""),
   image |-> Null]

\* POST /api/programs: the program pushed for a valid body.
NewProgram(body, t) ==
  [id |-> ToString36(t),
   title |-> body.title,
   description |-> OrElse(body.description, ""),
   image |-> OrElse(body.image, Null)]

PostPrograms(r, body) ==
  /\ EventLoopIdle
  /\ pc[r] = "receiving"
  /\ pc' = [pc EXCEPT ![r] = "idle"]
  /\ IF ~Truthy(body.title)
     THEN /\ res' = Response("PostPrograms", 400, ErrorBody("title required"))
          /\ UNCHANGED << db, posted >>
     ELSE LET program == NewProgram(body, now) IN
          /\ Room
          /\ db' = [db EXCEPT !.programs = Append(@, program)]
          /\ res' = Response("PostPrograms", 201, << [id |-> program.id] >>)
          /\ posted' = [kind |-> "program", id |-> program.id, body |-> body]
  /\ UNCHANGED << now, frame >>
  /\ sent' = [sent EXCEPT ![r] = @ + 1]

\* ---------------------------------------------------------------- recipes
GetRecipes ==
  /\ EventLoopIdle
  /\ res' = Response("GetRecipes", 200, db.recipes)
  /\ UNCHANGED << db, now, pc, frame, posted >>
  /\ UNCHANGED sent

\* POST /api/recipes: the recipe pushed for a valid body.
NewRecipe(body, t) ==
  [id |-> ToString36(t),
   title |-> body.title,
   ingredients |-> OrElse(body.ingredients, ""),
   instructions |-> OrElse(body.instructions, ""),
   image |-> OrElse(body.image, Null)]

PostRecipes(r, body) ==
  /\ EventLoopIdle
  /\ pc[r] = "receiving"
  /\ pc' = [pc EXCEPT ![r] = "idle"]
  /\ IF ~Truthy(body.title)
     THEN /\ res' = Response("PostRecipes", 400, ErrorBody("title required"))
          /\ UNCHANGED << db, posted >>
     ELSE LET recipe == NewRecipe(body, now) IN
          /\ Room
          /\ db' = [db EXCEPT !.recipes = Append(@, recipe)]
          /\ res' = Response("PostRecipes", 201, << [id |-> recipe.id] >>)
          /\ posted' = [kind |-> "recipe", id |-> recipe.id, body |-> body]
  /\ UNCHANGED << now, frame >>
  /\ sent' = [sent EXCEPT ![r] = @ + 1]

\* DELETE /api/recipes/:id
DeleteRecipe(id) ==
  /\ EventLoopIdle
  /\ LET i == FindIndex(db.recipes, id) IN
     IF i = 0
     THEN /\ res' = Response("DeleteRecipe", 404, ErrorBody("not found"))
          /\ UNCHANGED << db, posted >>
     ELSE /\ db' = [db EXCEPT !.recipes = Splice1(@, i)]
          /\ res' = Response("DeleteRecipe", 200, SuccessBody)
          /\ posted' = NoPost
  /\ UNCHANGED << now, pc, frame >>
  /\ UNCHANGED sent

\* Mutant: a field is updated only when its new value is truthy.
UpdateRecipe_Truthy(recipe, body) ==
  [recipe EXCEPT
     !.title = IF Truthy(body.title) THEN body.title ELSE @,
     !.ingredients = IF Truthy(body.ingredients) THEN body.ingredients ELSE @,
     !.instructions = IF Truthy(body.instructions) THEN body.instructions ELSE @,
     !.image = IF Truthy(body.image) THEN body.image ELSE @]

\* PUT /api/recipes/:id: each field that is not undefined in the body is
\* assigned, whatever its value.
UpdateRecipe(recipe, body) ==
  [recipe EXCEPT
     !.title = IF body.title # Undefined THEN body.title ELSE @,
     !.ingredients = IF body.ingredients # Undefined THEN body.ingredients ELSE @,
     !.instructions = IF body.instructions # Undefined THEN body.instructions ELSE @,
     !.image = IF body.image # Undefined THEN body.image ELSE @]

PutRecipe(r, id, body) ==
  /\ EventLoopIdle
  /\ pc[r] = "receiving"
  /\ pc' = [pc EXCEPT ![r] = "idle"]
  /\ LET i == FindIndex(db.recipes, id) IN
     IF i = 0
     THEN /\ res' = Response("PutRecipe", 404, ErrorBody("not found"))
          /\ UNCHANGED << db, posted >>
     ELSE /\ db' = [db EXCEPT !.recipes[i] = UpdateRecipe(@, body)]
          /\ res' = Response("PutRecipe", 200, SuccessBody)
          /\ posted' = NoPost
  /\ UNCHANGED << now, frame >>
  /\ sent' = [sent EXCEPT ![r] = @ + 1]

\* All messages of all stored tickets.
StoredMessages ==
  UNION {{db.tickets[i].messages[k] : k \in 1..Len(db.tickets[i].messages)} :
           i \in 1..Len(db.tickets)}

\* --------------------------------------------------------- specifications
\* Each specification is the server restricted to some routes, with the
\* request bodies drawn from a small set; the collections are independent,
\* and a handler reads nothing but the document, the clock and its request.

\* Specifications without concurrent requests use one slot.
OneSlot == {1}

TicketBody(email, password, message, file, fileName) ==
  [email |-> email, password |-> password, message |-> message,
   file |-> file, fileName |-> fileName]
MessageBody(sender, text, file, fileName) ==
  [sender |-> sender, text |-> text, file |-> file, fileName |-> fileName]

\* Ticket lifecycle: create, append a message, update the status, delete.
TicketCreateBodies ==
  {TicketBody("a@x", "p", Undefined, Undefined, Undefined)}
TextBodies == {MessageBody(Undefined, "hi", Undefined, Undefined)}
StatusBodies == [status : {Undefined, "open", "closed", "pending"}]

NextStatus ==
  \/ Tick
  \/ \E r \in OneSlot : Arrive(r)
  \/ \E r \in OneSlot, body \in TicketCreateBodies :
       db.tickets = << >> /\ PostCreate(r, body, TRUE)
  \/ \E r \in OneSlot, id \in Ids, body \in TextBodies :
       BeginMessage(r, id, body)
  \/ \E r \in OneSlot : FinishMessage(r, TRUE)
  \/ \E r \in OneSlot, id \in Ids, body \in StatusBodies :
       PutTicket(r, id, body)
  \/ \E id \in Ids : DeleteTicket(id)

SpecStatus == Init /\ [][NextStatus]_vars

\* Concurrent requests on the tickets: several bodies in flight at once.
CloseBodies == [status : {"closed"}]

\* The handler of a request with a body that is in flight in slot r.
HandleTicketBody(r) ==
  \/ \E body \in TicketCreateBodies : PostCreate(r, body, TRUE)
  \/ \E id \in Ids, body \in TextBodies : BeginMessage(r, id, body)
  \/ \E id \in Ids, body \in CloseBodies : PutTicket(r, id, body)

NextRace ==
  \/ \E r \in Slots : Arrive(r)
  \/ \E r \in Slots : RejectBody(r)
  \/ \E r \in Slots : HandleTicketBody(r)
  \/ \E r \in Slots : FinishMessage(r, TRUE)
  \/ \E id \in Ids : DeleteTicket(id)

SpecRace == Init /\ [][NextRace]_vars

\* Lookup by credentials: tickets of several owners, created at several times.
LookupCreateBodies ==
  {TicketBody("a@x", "p", Undefined, Undefined, Undefined),
   TicketBody("a@x", "q", Undefined, Undefined, Undefined),
   TicketBody("b@x", "p", Undefined, Undefined, Undefined)}
\* Query parameters of GET /api/user/ticket (null when absent).
QueryEmails == {Null, "a@x", "b@x"}
QueryPasswords == {"", "p", "q"}

NextLookup ==
  \/ Tick
  \/ \E r \in OneSlot : Arrive(r)
  \/ \E r \in OneSlot, body \in LookupCreateBodies : PostCreate(r, body, TRUE)
  \/ \E id \in Ids : DeleteTicket(id)
  \/ \E email \in QueryEmails, password \in QueryPasswords :
       GetUserTicket(email, password)

SpecLookup == Init /\ [][NextLookup]_vars

\* Attachments: bodies with and without a file, writes that succeed or fail.
AttachCreateBodies ==
  {TicketBody("a@x", "p", Undefined, "data:;base64,aGk=", "a b.png"),
   TicketBody("a@x", "p", "hi", "data:;base64,aGk=", "a b.png"),
   TicketBody("a@x", "p", "hi", Undefined, Undefined)}
AttachBodies ==
  {MessageBody(Undefined, Undefined, "data:;base64,aGk=", Undefined),
   MessageBody(Undefined, Undefined, "data:;base64,aGk=", "a b.png"),
   MessageBody(Undefined, "hi", "data:;base64,aGk=", "a b.png"),
   MessageBody(Undefined, "hi", Undefined, Undefined)}

NextAttach ==
  \/ \E r \in OneSlot : Arrive(r)
  \/ \E r \in OneSlot, body \in AttachCreateBodies, writeOk \in BOOLEAN :
       PostCreate(r, body, writeOk)
  \/ \E r \in OneSlot, id \in Ids, body \in AttachBodies :
       BeginMessage(r, id, body)
  \/ \E r \in OneSlot, writeOk \in BOOLEAN : FinishMessage(r, writeOk)

SpecAttach == Init /\ [][NextAttach]_vars

\* Clients: creation with valid and invalid bodies, and the recomputing read.
ClientBody(name, email, startDate, active, duration) ==
  [name |-> name, email |-> email, startDate |-> startDate,
   active |-> active, duration |-> duration]
ClientBodies ==
  {ClientBody("ann", "a@x", "D0", Undefined, "1"),
   ClientBody("ann", "a@x", "D0", "false", "1"),
   ClientBody("ann", "a@x", Undefined, Undefined, "abc"),
   ClientBody("ann", "a@x", Undefined, Undefined, Undefined),
   ClientBody(Undefined, "a@x", "D0", Undefined, "1"),
   ClientBody("ann", Undefined, "D0", Undefined, "1"),
   ClientBody(Undefined, Undefined, Undefined, Undefined, Undefined)}

NextClients ==
  \/ Tick
  \/ \E r \in OneSlot : Arrive(r)
  \/ \E r \in OneSlot : RejectBody(r)
  \/ \E r \in OneSlot, body \in ClientBodies : PostClients(r, body)
  \/ GetClients

SpecClients == Init /\ [][NextClients]_vars

\* The four collections together: create, read, delete.
CrudClientBodies ==
  {ClientBody("ann", "a@x", "D0", "true", "1"),
   ClientBody("ann", "a@x", "D0", "false", "0"),
   ClientBody("ann", "a@x", "", "0", Undefined)}
CrudProgramBodies ==
  {[title |-> "Legs", description |-> "squats", image |-> "legs.png"],
   [title |-> Undefined, description |-> "squats", image |-> ""]}
CrudRecipeBodies ==
  [title : {"Salad"}, ingredients : {Undefined, "leaves"},
   instructions : {"0"}, image : {"salad.png"}]
CrudTicketBodies ==
  {TicketBody("a@x", "p", Undefined, Undefined, Undefined),
   TicketBody("a@x", "p", "hi", Undefined, Undefined)}

NextCrud ==
  \/ Tick
  \/ \E r \in OneSlot : Arrive(r)
  \/ \E r \in OneSlot, body \in CrudClientBodies : PostClients(r, body)
  \/ \E r \in OneSlot, body \in CrudProgramBodies : PostPrograms(r, body)
  \/ \E r \in OneSlot, body \in CrudRecipeBodies : PostRecipes(r, body)
  \/ \E r \in OneSlot, body \in CrudTicketBodies : PostCreate(r, body, TRUE)
  \/ GetClients
  \/ GetPrograms
  \/ GetRecipes
  \/ GetTickets
  \/ \E id \in Ids : DeleteTicket(id)
  \/ \E id \in Ids : DeleteRecipe(id)

SpecCrud == Init /\ [][NextCrud]_vars

\* Message threads: several tickets, messages of several senders, status
\* updates between open and closed, and deletion.  At most two tickets are
\* stored, and the clock advances while no message is stored, so that the
\* tickets get different ids.
SenderBodies ==
  {MessageBody(Undefined, "hi", Undefined, Undefined),
   MessageBody("trainer", "ok", Undefined, Undefined)}
OpenClosedBodies == [status : {Undefined, "open", "closed"}]

NextThread ==
  \/ StoredMessages = {} /\ Tick
  \/ \E r \in OneSlot : Arrive(r)
  \/ \E r \in OneSlot, body \in TicketCreateBodies :
       Len(db.tickets) < 2 /\ PostCreate(r, body, TRUE)
  \/ \E r \in OneSlot, id \in Ids, body \in SenderBodies :
       BeginMessage(r, id, body)
  \/ \E r \in OneSlot : FinishMessage(r, TRUE)
  \/ \E r \in OneSlot, id \in Ids, body \in OpenClosedBodies :
       PutTicket(r, id, body)
  \/ \E id \in Ids : DeleteTicket(id)

SpecThread == Init /\ [][NextThread]_vars

\* Recipes: create, partial update, delete and read, next to a program.
RecipeBody(title, ingredients, instructions, image) ==
  [title |-> title, ingredients |-> ingredients,
   instructions |-> instructions, image |-> image]
RecipeBodies ==
  {RecipeBody("Salad", "leaves", Undefined, "salad.png"),
   RecipeBody(Undefined, "leaves", Undefined, Undefined)}
RecipeUpdateBodies ==
  {RecipeBody(Undefined, Undefined, Undefined, Undefined),
   RecipeBody("Soup", Undefined, Undefined, Undefined),
   RecipeBody("", Undefined, "boil", Undefined),
   RecipeBody(Undefined, "", Undefined, Null)}
RecipeProgramBodies ==
  {[title |-> "Legs", description |-> "squats", image |-> Undefined]}

NextRecipes ==
  \/ Tick
  \/ \E r \in OneSlot : Arrive(r)
  \/ \E r \in OneSlot, body \in RecipeBodies : PostRecipes(r, body)
  \/ \E r \in OneSlot, body \in RecipeProgramBodies : PostPrograms(r, body)
  \/ \E r \in OneSlot, id \in Ids, body \in RecipeUpdateBodies :
       PutRecipe(r, id, body)
  \/ \E id \in Ids : DeleteRecipe(id)
  \/ GetRecipes

SpecRecipes == Init /\ [][NextRecipes]_vars

\* Every route that writes the document, one valid body each, and the login;
\* a message is appended only while no ticket has a message.
LoginBodies ==
  {[username |-> "admin", password |-> "admin123"],
   [username |-> "admin", password |-> "admin"],
   [username |-> "root", password |-> "admin123"],
   [username |-> Undefined, password |-> Undefined]}
StoreClientBodies == {ClientBody("ann", "a@x", "D0", Undefined, "1")}
StoreRecipeBodies == {RecipeBody("Salad", "leaves", Undefined, Undefined)}
StoreUpdateBodies == {RecipeBody("Soup", Undefined, Undefined, Undefined)}

NextStore ==
  \/ Tick
  \/ \E r \in OneSlot : Arrive(r)
  \/ \E r \in OneSlot, body \in LoginBodies : PostLogin(r, body)
  \/ \E r \in OneSlot, body \in StoreClientBodies : PostClients(r, body)
  \/ \E r \in OneSlot, body \in RecipeProgramBodies : PostPrograms(r, body)
  \/ \E r \in OneSlot, body \in StoreRecipeBodies : PostRecipes(r, body)
  \/ \E r \in OneSlot, body \in TicketCreateBodies : PostCreate(r, body, TRUE)
  \/ \E r \in OneSlot, id \in Ids, body \in TextBodies :
       /\ \A i \in 1..Len(db.tickets) : db.tickets[i].messages = << >>
       /\ BeginMessage(r, id, body)
  \/ \E r \in OneSlot : FinishMessage(r, TRUE)
  \/ \E r \in OneSlot, id \in Ids, body \in CloseBodies :
       PutTicket(r, id, body)
  \/ \E r \in OneSlot, id \in Ids, body \in StoreUpdateBodies :
       PutRecipe(r, id, body)
  \/ GetClients
  \/ \E id \in Ids : DeleteTicket(id)
  \/ \E id \in Ids : DeleteRecipe(id)

SpecStore == Init /\ [][NextStore]_vars

\* Dispatch: concurrent requests on every kind of path (invalid JSON,
\* validation error, not found, success, no matching route, exception).
DispatchClientBodies ==
  {ClientBody("ann", "a@x", "D0", Undefined, "1"),
   ClientBody(Undefined, "a@x", "D0", Undefined, "1")}

\* A handler of the request in slot r running to its response or, for a
\* message, to its loadDB.
HandleBody(r) ==
  \/ \E body \in LoginBodies : PostLogin(r, body)
  \/ \E body \in DispatchClientBodies : PostClients(r, body)
  \/ \E body \in TicketCreateBodies : PostCreate(r, body, TRUE)
  \/ \E id \in Ids, body \in TextBodies : BeginMessage(r, id, body)
  \/ \E id \in Ids, body \in CloseBodies : PutTicket(r, id, body)
  \/ \E id \in Ids, body \in StoreUpdateBodies : PutRecipe(r, id, body)

\* The callbacks that answer the request in slot r.
Respond(r) == RejectBody(r) \/ HandleBody(r) \/ FinishMessage(r, TRUE)

NextDispatch ==
  \/ \E r \in Slots : Arrive(r)
  \/ \E r \in Slots : RejectBody(r)
  \/ \E r \in Slots : HandleBody(r)
  \/ \E r \in Slots : FinishMessage(r, TRUE)
  \/ \E id \in Ids : DeleteTicket(id)
  \/ \E email \in {"a@x"}, password \in {"", "p"} :
       GetUserTicket(email, password)
  \/ ThrowUserTicket
  \/ UnknownEndpoint

\* Once the body of a request has been received its promise callback is
\* queued, and the event loop runs every queued callback in turn: a callback
\* that other callbacks disable now and again still runs (strong fairness).
SpecDispatch ==
  Init /\ [][NextDispatch]_vars /\ \A r \in Slots : SF_vars(Respond(r))

\* The whole server.
Next ==
  \/ NextStatus \/ NextRace \/ NextLookup
  \/ NextAttach \/ NextClients \/ NextCrud
  \/ NextThread \/ NextRecipes \/ NextStore \/ NextDispatch
  \/ \E id \in Ids : GetTicket(id)

Spec == Init /\ [][Next]_vars

\* ------------------------------------------------------------------ claims
Last(seq) == seq[Len(seq)]
IsPrefix(a, b) == Len(a) <= Len(b) /\ SubSeq(b, 1, Len(a)) = a
\* seq grew by exactly one admin message with the given text.
OneAdminMessage(old, new, text) ==
  /\ Len(new) = Len(old) + 1
  /\ IsPrefix(old, new)
  /\ Last(new).sender = "admin"
  /\ Last(new).text = text

\* C1: a PUT on an existing ticket with status 'closed' appends exactly one
\* admin message with the closure text when the ticket is open and nothing
\* when it is already closed; with status 'open' on a closed ticket it
\* appends exactly one admin message with the (different) reopened text.
C1_StatusMessages ==
  [][\A r \in OneSlot, id \in Ids, body \in StatusBodies :
       LET i == FindIndex(db.tickets, id) IN
       (i # 0 /\ PutTicket(r, id, body)) =>
         LET old == db.tickets[i]
             new == db'.tickets[i]
         IN  /\ (body.status = "closed" /\ old.status = "open") =>
                  OneAdminMessage(old.messages, new.messages, ClosedText)
             /\ (body.status = "closed" /\ old.status = "closed") =>
                  new.messages = old.messages
             /\ (body.status = "open" /\ old.status = "closed") =>
                  OneAdminMessage(old.messages, new.messages, ReopenedText)
             /\ ClosedText # ReopenedText
    ]_vars

\* C1 witness: a ticket was closed and then reopened by PUT requests.
C1_Witness ==
  /\ res.op = "PutTicket"
  /\ res.status = 200
  /\ \E i \in 1..Len(db.tickets) :
       LET t == db.tickets[i] IN
       /\ t.status = "open"
       /\ Len(t.messages) >= 2
       /\ Last(t.messages).text = ReopenedText
       /\ t.messages[Len(t.messages) - 1].text = ClosedText

\* C2: every ticket of the persisted document has status 'open' or 'closed'.
C2_StatusOpenOrClosed ==
  \A i \in 1..Len(db.tickets) : db.tickets[i].status \in {"open", "closed"}

\* C4 (as claimed): while a mutating request is between its load and its
\* save, the handler of another in-flight mutating request can run.
C4_CanInterleave ==
  \A r \in Slots, q \in Slots :
    (pc[r] = "loaded" /\ pc[q] = "receiving") => ENABLED HandleTicketBody(q)

\* C4 (amended): no save loses an update: the document a message append
\* saves is the document persisted just before the save with exactly that one
\* message appended to one ticket.
C4_NoLostUpdate ==
  [][\A r \in Slots :
       (pc[r] = "loaded" /\ pc'[r] = "idle") =>
         \E i \in 1..Len(db.tickets) :
           /\ Len(db'.tickets) = Len(db.tickets)
           /\ Len(db'.tickets[i].messages) = Len(db.tickets[i].messages) + 1
           /\ db' = [db EXCEPT !.tickets[i].messages =
                                 Append(@, Last(db'.tickets[i].messages))]
    ]_vars

\* C4 witness: two mutating requests are in flight, one of them between its
\* load and its save, on a ticket that already holds an appended message.
C4_Witness ==
  \E r \in Slots, q \in Slots :
    /\ pc[r] = "loaded"
    /\ pc[q] = "receiving"
    /\ \E i \in 1..Len(db.tickets) : Len(db.tickets[i].messages) > 0

\* C3: within each collection no two entities have the same id.
UniqueIds(seq) ==
  \A i \in 1..Len(seq), j \in 1..Len(seq) : seq[i].id = seq[j].id => i = j
C3_UniqueIds ==
  /\ UniqueIds(db.clients)
  /\ UniqueIds(db.programs)
  /\ UniqueIds(db.tickets)
  /\ UniqueIds(db.recipes)

\* C5: GET /api/user/ticket with an email and a password answers 404 when no
\* stored ticket has both, and otherwise returns a ticket that has both and
\* whose created timestamp is the latest among those; the store is unchanged.
C5_LatestMatch ==
  [][\A email \in QueryEmails, password \in QueryPasswords :
       (Truthy(email) /\ Truthy(password) /\ GetUserTicket(email, password)) =>
         LET M == {i \in 1..Len(db.tickets) :
                     /\ db.tickets[i].email = email
                     /\ db.tickets[i].password = password}
         IN  /\ db' = db
             /\ IF M = {} THEN res'.status = 404
                ELSE /\ res'.status = 200
                     /\ \E i \in M :
                          /\ res'.body = << db.tickets[i] >>
                          /\ \A j \in M : GetTime(db.tickets[i].created)
                                            >= GetTime(db.tickets[j].created)
    ]_vars

\* C5 witness: the lookup returned the later of two stored tickets that have
\* the same email and password.
C5_Witness ==
  /\ res.op = "GetUserTicket"
  /\ res.status = 200
  /\ \E i \in 1..Len(db.tickets), j \in 1..Len(db.tickets) :
       /\ db.tickets[j] = res.body[1]
       /\ db.tickets[i].email = db.tickets[j].email
       /\ db.tickets[i].password = db.tickets[j].password
       /\ GetTime(db.tickets[i].created) < GetTime(db.tickets[j].created)

\* C6: DELETE of a ticket or recipe whose id is not in the collection answers
\* 404 and leaves the document unchanged; with an id that is present it
\* removes exactly one entity, which has that id, and nothing else changes.
C6_Delete ==
  [][\A id \in Ids :
       /\ DeleteTicket(id) =>
            IF \A i \in 1..Len(db.tickets) : db.tickets[i].id # id
            THEN res'.status = 404 /\ db' = db
            ELSE /\ res'.status = 200
                 /\ Len(db'.tickets) = Len(db.tickets) - 1
                 /\ \E i \in 1..Len(db.tickets) :
                      /\ db.tickets[i].id = id
                      /\ \A j \in 1..Len(db'.tickets) :
                           db'.tickets[j] = db.tickets[IF j < i THEN j ELSE j + 1]
                 /\ db' = [db EXCEPT !.tickets = db'.tickets]
       /\ DeleteRecipe(id) =>
            IF \A i \in 1..Len(db.recipes) : db.recipes[i].id # id
            THEN res'.status = 404 /\ db' = db
            ELSE /\ res'.status = 200
                 /\ Len(db'.recipes) = Len(db.recipes) - 1
                 /\ \E i \in 1..Len(db.recipes) :
                      /\ db.recipes[i].id = id
                      /\ \A j \in 1..Len(db'.recipes) :
                           db'.recipes[j] = db.recipes[IF j < i THEN j ELSE j + 1]
                 /\ db' = [db EXCEPT !.recipes = db'.recipes]
    ]_vars

\* C6 witness: a DELETE removed one of two recipes and the other one remains.
C6_Witness ==
  /\ res.op = "DeleteRecipe"
  /\ res.status = 200
  /\ Len(db.recipes) = 1

\* C7: POST /api/clients with a body that lacks name or lacks email answers
\* 400 and leaves the document unchanged.
C7_ClientValidation ==
  [][\A r \in OneSlot, body \in ClientBodies :
       ((body.name = Undefined \/ body.email = Undefined)
          /\ PostClients(r, body)) =>
         (res'.status = 400 /\ db' = db)
    ]_vars

\* C7 witness: a client creation was rejected while a client is stored.
C7_Witness ==
  /\ res.op = "PostClients"
  /\ res.status = 400
  /\ Len(db.clients) > 0

\* C9: when the attachment write fails, POST /api/support/create still
\* answers 201 and POST /api/tickets/:id/message still answers 200, and the
\* ticket or message is persisted with no attachment path on the message.
C9_AttachmentFailure ==
  [][
      /\ \A r \in OneSlot, body \in AttachCreateBodies :
          (Truthy(body.file) /\ Truthy(body.fileName)
             /\ PostCreate(r, body, FALSE)) =>
            /\ res'.status = 201
            /\ Len(db'.tickets) = Len(db.tickets) + 1
            /\ IsPrefix(db.tickets, db'.tickets)
            /\ Last(db'.tickets) = res'.body[1]
            /\ Len(Last(db'.tickets).messages) = 1
            /\ Last(db'.tickets).messages[1].attachment = Undefined
      /\ \A r \in OneSlot :
          (pc[r] = "loaded" /\ Truthy(frame[r].body.file)
             /\ Truthy(frame[r].body.fileName) /\ FinishMessage(r, FALSE)) =>
            LET i == FindIndex(db.tickets, frame[r].id) IN
            /\ res'.status = 200
            /\ Len(db'.tickets[i].messages) = Len(db.tickets[i].messages) + 1
            /\ IsPrefix(db.tickets[i].messages, db'.tickets[i].messages)
            /\ Last(db'.tickets[i].messages).attachment = Undefined
    ]_vars

\* C9 witness: a ticket was created from a body with a file and a file name,
\* the request was answered 201 and the stored message has no attachment.
C9_Witness ==
  /\ res.op = "PostCreate"
  /\ res.status = 201
  /\ posted.kind = "ticket"
  /\ Truthy(posted.body.file)
  /\ Truthy(posted.body.fileName)
  /\ Last(db.tickets).messages[1].attachment = Undefined

\* C10: after GET /api/clients every client with a startDate and a duration
\* has daysLeft = max(0, ceil((startDate + duration months - now) / day)),
\* and when that is 0 its active flag is false in the response and in the
\* persisted document.
C10_DaysLeftAndActive ==
  [][GetClients =>
       \A i \in 1..Len(db.clients) :
         LET client == db.clients[i]
             diffMs == DiffMs(client, now)
             days == IF IsNaN(diffMs) THEN 0 ELSE CeilDiv(diffMs[1], TicksPerDay)
         IN  (Truthy(client.startDate) /\ Truthy(client.duration)) =>
               /\ ~IsNaN(diffMs) =>
                    res'.body[i].daysLeft = ToString(IF days > 0 THEN days ELSE 0)
               /\ res'.body[i].daysLeft = "0" =>
                    /\ res'.body[i].active = "false"
                    /\ db'.clients[i].active = "false"
    ]_vars

\* The entities of a returned list that carry the id the POST returned.
Created(list) == {i \in 1..Len(list) : list[i].id = posted.id}
\* Every submitted field of the body is returned with the submitted value.
Intact(entity, body, fields) ==
  \A f \in fields : body[f] # Undefined => entity[f] = body[f]
\* Every field submitted with a truthy value is returned with that value.
TruthyIntact(entity, body, fields) ==
  \A f \in fields : Truthy(body[f]) => entity[f] = body[f]

\* C8 (as claimed): a successful POST followed by a GET of the collection,
\* with no other mutating request in between, returns an entity with the
\* non-empty id the POST returned and every submitted field as submitted.
C8_RoundTrip ==
  [][/\ (GetClients /\ posted.kind = "client") =>
          /\ posted.id # ""
          /\ \E i \in Created(res'.body) :
               Intact(res'.body[i], posted.body,
                      {"name", "email", "startDate", "active", "duration"})
     /\ (GetPrograms /\ posted.kind = "program") =>
          /\ posted.id # ""
          /\ \E i \in Created(res'.body) :
               Intact(res'.body[i], posted.body,
                      {"title", "description", "image"})
     /\ (GetRecipes /\ posted.kind = "recipe") =>
          /\ posted.id # ""
          /\ \E i \in Created(res'.body) :
               Intact(res'.body[i], posted.body,
                      {"title", "ingredients", "instructions", "image"})
     /\ (GetTickets /\ posted.kind = "ticket") =>
          /\ posted.id # ""
          /\ \E i \in Created(res'.body) :
               /\ Intact(res'.body[i], posted.body, {"email", "password"})
               /\ posted.body.message # Undefined =>
                    /\ Len(res'.body[i].messages) > 0
                    /\ res'.body[i].messages[1].text = posted.body.message
    ]_vars

\* C8 (amended): the returned entity has the non-empty id the POST returned
\* and every stored field that was submitted with a truthy value as
\* submitted (a falsy value is replaced by the field's default); a client's
\* active flag is false when false was submitted, and otherwise true unless
\* the read found the client expired (daysLeft 0) and flipped it to false.
C8_RoundTripTruthy ==
  [][/\ (GetClients /\ posted.kind = "client") =>
          /\ posted.id # ""
          /\ \E i \in Created(res'.body) :
               LET client == res'.body[i] IN
               /\ TruthyIntact(client, posted.body,
                               {"name", "email", "startDate", "duration"})
               /\ posted.body.active = "false" => client.active = "false"
               /\ posted.body.active # "false" =>
                    \/ client.active = "true"
                    \/ client.active = "false" /\ client.daysLeft = "0"
     /\ (GetPrograms /\ posted.kind = "program") =>
          /\ posted.id # ""
          /\ \E i \in Created(res'.body) :
               TruthyIntact(res'.body[i], posted.body,
                            {"title", "description", "image"})
     /\ (GetRecipes /\ posted.kind = "recipe") =>
          /\ posted.id # ""
          /\ \E i \in Created(res'.body) :
               TruthyIntact(res'.body[i], posted.body,
                            {"title", "ingredients", "instructions", "image"})
     /\ (GetTickets /\ posted.kind = "ticket") =>
          /\ posted.id # ""
          /\ \E i \in Created(res'.body) :
               /\ TruthyIntact(res'.body[i], posted.body, {"email", "password"})
               /\ Truthy(posted.body.message) =>
                    /\ Len(res'.body[i].messages) > 0
                    /\ res'.body[i].messages[1].text = posted.body.message
    ]_vars

\* C8 witness: a client created as active with a start date and a duration
\* was read back right after its creation, expired and no longer active.
C8_Witness ==
  /\ res.op = "GetClients"
  /\ posted.kind = "client"
  /\ posted.body.active # "false"
  /\ Truthy(posted.body.duration)
  /\ \E i \in Created(res.body) :
       /\ res.body[i].active = "false"
       /\ res.body[i].startDate = posted.body.startDate
       /\ res.body[i].duration = posted.body.duration

\* C11: every message stored in any ticket has sender 'client' or 'admin',
\* whatever sender the body of POST /api/tickets/:id/message supplied.
C11_SenderClientOrAdmin ==
  \A m \in StoredMessages : m.sender \in {"client", "admin"}

\* C12: PUT /api/recipes/:id on an existing recipe sets exactly the fields
\* among title, ingredients, instructions, image that the body holds, to the
\* values of the body, and leaves the recipe's id and other fields, the other
\* recipes and the other collections unchanged; on an unknown id it answers
\* 404 and the document is unchanged.
C12_PartialUpdate ==
  [][\A r \in OneSlot, id \in Ids, body \in RecipeUpdateBodies :
       PutRecipe(r, id, body) =>
         IF \A i \in 1..Len(db.recipes) : db.recipes[i].id # id
         THEN res'.status = 404 /\ db' = db
         ELSE \E i \in 1..Len(db.recipes) :
                /\ db.recipes[i].id = id
                /\ res'.status = 200
                /\ db' = [db EXCEPT !.recipes[i] = db'.recipes[i]]
                /\ db'.recipes[i].id = id
                /\ \A f \in {"title", "ingredients", "instructions", "image"} :
                     db'.recipes[i][f] = IF body[f] # Undefined THEN body[f]
                                         ELSE db.recipes[i][f]
    ]_vars

\* C12 witness: a PUT gave one of two stored recipes the empty title and the
\* instructions of its body.
C12_Witness ==
  /\ res.op = "PutRecipe"
  /\ res.status = 200
  /\ Len(db.recipes) = 2
  /\ \E i \in 1..Len(db.recipes) :
       db.recipes[i].title = "" /\ db.recipes[i].instructions = "boil"

\* C19: every stored recipe and program has a non-empty title and every
\* stored client has a non-empty name and email.
C19_RequiredFields ==
  /\ \A i \in 1..Len(db.recipes) : Truthy(db.recipes[i].title)
  /\ \A i \in 1..Len(db.programs) : Truthy(db.programs[i].title)
  /\ \A i \in 1..Len(db.clients) :
       Truthy(db.clients[i].name) /\ Truthy(db.clients[i].email)

\* C13: a GET never changes the persisted document, except that GET
\* /api/clients may change the active flag of an expired client from true to
\* false; no other field of a client (such as daysLeft) and no other
\* collection changes.
C13_ReadsPreserve ==
  [][/\ GetClients =>
          /\ db' = [db EXCEPT !.clients = db'.clients]
          /\ Len(db'.clients) = Len(db.clients)
          /\ \A i \in 1..Len(db.clients) :
               /\ db'.clients[i] =
                    [db.clients[i] EXCEPT !.active = db'.clients[i].active]
               /\ db'.clients[i].active # db.clients[i].active =>
                    /\ db.clients[i].active = "true"
                    /\ db'.clients[i].active = "false"
                    /\ res'.body[i].daysLeft = "0"
     /\ (\/ GetPrograms \/ GetRecipes \/ GetTickets
         \/ \E id \in Ids : GetTicket(id)
         \/ \E email \in QueryEmails, password \in QueryPasswords :
              GetUserTicket(email, password)) => db' = db
    ]_vars

\* C14: every message stored in a ticket carries a text or an attachment
\* path.
C14_NoEmptyMessage ==
  \A m \in StoredMessages : Truthy(m.text) \/ Truthy(m.attachment)

\* The number of entities of a collection that have the id.
Count(seq, id) == Cardinality({i \in 1..Len(seq) : seq[i].id = id})

\* C15: no request makes the clients or the programs lose an entity, and a
\* ticket or a recipe disappears only in a step of a DELETE request that
\* carries its id.
C15_RemovedOnlyByDelete ==
  [][\A id \in Ids :
       /\ Count(db'.clients, id) >= Count(db.clients, id)
       /\ Count(db'.programs, id) >= Count(db.programs, id)
       /\ Count(db'.tickets, id) < Count(db.tickets, id) => DeleteTicket(id)
       /\ Count(db'.recipes, id) < Count(db.recipes, id) => DeleteRecipe(id)
    ]_vars

\* C15 witness: a DELETE removed a ticket while a client that a read has
\* found expired is stored.
C15_Witness ==
  /\ res.op = "DeleteTicket"
  /\ res.status = 200
  /\ db.tickets = << >>
  /\ \E i \in 1..Len(db.clients) : db.clients[i].active = "false"

\* C16: no request changes the admin record written at initialization, and
\* POST /api/login answers success = true (status 200) exactly when the
\* username and the password of the body both equal the stored pair, and
\* success = false (status 401) otherwise, without changing the document.
C16_AdminFixed ==
  [][/\ db.admin = initDB.admin
     /\ db'.admin = initDB.admin
     /\ \A r \in OneSlot, body \in LoginBodies :
          PostLogin(r, body) =>
            LET match == /\ body.username = db.admin.username
                         /\ body.password = db.admin.password
            IN  /\ db' = db
                /\ res'.body = << [success |-> match] >>
                /\ res'.status = IF match THEN 200 ELSE 401
    ]_vars

\* C16 witness: a login succeeded after requests have written the document.
C16_Witness ==
  /\ res.op = "PostLogin"
  /\ res.status = 200
  /\ res.body[1].success
  /\ db.clients # << >>
  /\ db.recipes # << >>

\* The closure and reopened messages the server appended to a thread (no
\* request body of the specifications carries these texts).
SystemMessages(messages) ==
  SelectSeq(messages, LAMBDA m : /\ m.sender = "admin"
                                 /\ m.text \in {ClosedText, ReopenedText})

\* C17: in every ticket the appended closure and reopened messages alternate,
\* starting with a closure message, and the status is 'closed' exactly when
\* there is one closure message more than reopened messages, and 'open' when
\* there are as many (status updates use only 'open' and 'closed').
C17_Alternate ==
  \A i \in 1..Len(db.tickets) :
    LET sys == SystemMessages(db.tickets[i].messages) IN
    /\ \A k \in 1..Len(sys) :
         sys[k].text = IF k % 2 = 1 THEN ClosedText ELSE ReopenedText
    /\ db.tickets[i].status = IF Len(sys) % 2 = 1 THEN "closed" ELSE "open"

\* C17 witness: a ticket was closed and reopened and is open, next to a
\* closed ticket whose thread holds a client's message before the closure.
C17_Witness ==
  \E i \in 1..Len(db.tickets), j \in 1..Len(db.tickets) :
    /\ db.tickets[i].status = "open"
    /\ Len(SystemMessages(db.tickets[i].messages)) = 2
    /\ db.tickets[j].status = "closed"
    /\ Len(db.tickets[j].messages) = 2
    /\ db.tickets[j].messages[1].sender = "client"

\* The later ticket is the earlier one with messages appended, at most.
Extends(old, new) ==
  /\ IsPrefix(old.messages, new.messages)
  /\ new.id = old.id
  /\ new.email = old.email
  /\ new.password = old.password
  /\ new.created = old.created

\* C18: in every step, each ticket that is stored before and after it keeps
\* its id, email, password and created timestamp, and its earlier messages
\* are a prefix of its later messages (tickets keep their order; a step may
\* remove one ticket or add tickets at the end).
C18_AppendOnly ==
  [][\/ /\ Len(db'.tickets) >= Len(db.tickets)
        /\ \A i \in 1..Len(db.tickets) : Extends(db.tickets[i], db'.tickets[i])
     \/ /\ Len(db'.tickets) = Len(db.tickets) - 1
        /\ \E k \in 1..Len(db.tickets) :
             \A j \in 1..Len(db'.tickets) :
               Extends(db.tickets[IF j < k THEN j ELSE j + 1], db'.tickets[j])
    ]_vars

\* C18 witness: a message was appended to a thread that held a message,
\* next to another stored ticket.
C18_Witness ==
  /\ res.op = "PostMessage"
  /\ res.status = 200
  /\ Len(db.tickets) = 2
  /\ \E i \in 1..Len(db.tickets) :
       /\ Len(db.tickets[i].messages) = 2
       /\ db.tickets[i].messages[1] # db.tickets[i].messages[2]

\* C20: a request is never answered twice, every request whose body is being
\* received is eventually answered exactly once, and a request that matches
\* no route is answered 404 'unknown endpoint' with the store unchanged.
C20_ExactlyOneResponse ==
  /\ [](\A r \in Slots : sent[r] <= 1)
  /\ [][UnknownEndpoint =>
          /\ res'.status = 404
          /\ res'.body = ErrorBody("unknown endpoint")
          /\ db' = db]_vars
  /\ \A r \in Slots :
       (pc[r] = "receiving") ~> (pc[r] = "idle" /\ sent[r] = 1)

====
